---- MODULE Spec2Model ----
(***************************************************************************)
(* Model of blaze::DenseSubvector (blaze/math/views/DenseSubvector.h): a   *)
(* non-owning view onto a contiguous run of elements of a dense parent     *)
(* vector, its construction, element access and the assignment and         *)
(* compound assignment operators with their scalar, vectorized, streaming  *)
(* and sparse kernels.                                                     *)
(*                                                                         *)
(* Indices are 0-based as in the source; the parent storage is a TLA+      *)
(* sequence, so storage index k is position k+1 of the sequence.           *)
(*                                                                         *)
(* Specifications:                                                         *)
(*   Spec         one view, one operation on it, each operator as a whole  *)
(*   SpecCtor     the constructor for every pair of size_t arguments       *)
(*   SpecViews    several live views, created, nested, written, destroyed  *)
(*   SpecCross    subvectors of cross product expressions                  *)
(*   SpecCall     one operator call, statement by statement                *)
(*   SpecCallFair SpecCall with the call running to its end                *)
(*   SpecSeq      one view, several operations on it one after the other   *)
(***************************************************************************)
EXTENDS Integers, Sequences, FiniteSets

(***************************************************************************)
(* Bounds of the model.                                                    *)
(***************************************************************************)
\* Largest logical size of the parent vector.
MaxN == 10

\* Width of size_t in bits (64 in the source, scaled down).
SizeBits == 5

\* cacheSize / ( sizeof(ElementType) * 3 ), the streaming threshold, scaled down.
StreamThreshold == 4

\* Largest size of the parent in the programs with several live views.
MaxViewN == MaxN \div 3

\* Largest number of views that are live at the same time.
MaxViews == 2

\* 2^SizeBits: size_t arithmetic is modulo SizeMod.
RECURSIVE Pow2(_)
Pow2(b) == IF b = 0 THEN 1 ELSE 2 * Pow2(b - 1)

SizeMod == Pow2(SizeBits)

\* IT::size for the element types under consideration (1: no intrinsic form).
Widths == {1, 2, 4}

VARIABLES
    W,             \* IT::size, the number of elements per intrinsic register
    useStreaming,  \* blaze::useStreaming (compile time configuration)
    N,             \* vector_.size(), the logical size of the parent
    mem,           \* the parent's storage, padded to a multiple of W
    view,          \* the live DenseSubvector, or NoView
    ctorArgs,      \* the arguments (index, n) of the constructor call of the view
    pc,            \* "init", "view" (a view is live), "done" (an operation was executed)
    last,          \* record of the last call: operation, operand, outcome
    views          \* the further live views over the parent (programs with several views)

vars == <<W, useStreaming, N, mem, view, ctorArgs, pc, last, views>>

(***************************************************************************)
(* Storage of a dense vector.                                              *)
(***************************************************************************)
\* Capacity of a dense vector of logical size n: padded to a multiple of w.
Capacity(n, w) == n + ((w - (n % w)) % w)

\* Element k (0-based) of storage m.
At(m, k) == m[k + 1]

\* Storage m with element k (0-based) set to x.
Put(m, k, x) == [m EXCEPT ![k + 1] = x]

\* A dense vector of size n holding b, b+1, ..., b+n-1, with zeroed padding.
Iota(n, w, b) == [k \in 1..Capacity(n, w) |-> IF k <= n THEN b + k - 1 ELSE 0]

\* Content of an intrinsic lane the program never initialised.
Undef == 0 - 1

NoView == [vector |-> "none", offset_ |-> 0, size_ |-> 0, rest_ |-> 0,
           final_ |-> 0, aligned_ |-> FALSE]

NoRhs == [kind |-> "none", vector |-> "none", self |-> FALSE, offset |-> 0,
          size |-> 0, vals |-> <<>>, elems |-> <<>>, v |-> NoView]

NoCall == [op |-> "none", err |-> "none", path |-> "none", tmp |-> FALSE,
           pre |-> <<>>, rhs |-> NoRhs, i |-> 0, x |-> 0,
           alias |-> "none", can |-> FALSE, is |-> FALSE,
           simd |-> FALSE, phase |-> "none"]

(***************************************************************************)
(* Constructor.                                                            *)
(***************************************************************************)
\* vectorizable = VT::vectorizable: element types without intrinsic form have IT::size 1.
vectorizable == W > 1

\* Faulty variant of the constructor: the alignment flag only looks at the first
\* element and ignores where the subvector ends.
CtorAlignedByStart(vector, vsize, index, n) ==
    [ok   |-> ~(((index + n) % SizeMod) > vsize),
     view |-> [vector |-> vector, offset_ |-> index, size_ |-> n, rest_ |-> n % W,
               final_ |-> n - (n % W), aligned_ |-> (index % W = 0)]]

\* Faulty variant of the constructor: the final index is the size itself.
CtorFinalIsSize(vector, vsize, index, n) ==
    [ok   |-> ~(((index + n) % SizeMod) > vsize),
     view |-> [vector |-> vector, offset_ |-> index, size_ |-> n, rest_ |-> n % W,
               final_ |-> n,
               aligned_ |-> (index % W = 0) /\
                            (((index + n) % SizeMod) = vsize \/ n % W = 0)]]

\* DenseSubvector( VT& vector, size_t index, size_t n ): the member initialisers
\* and the range check, in size_t arithmetic. vsize is vector.size().
DenseSubvectorCtor(vector, vsize, index, n) ==
    LET rest  == n % W
        final == n - rest
        algn  == (index % W = 0) /\ (((index + n) % SizeMod) = vsize \/ n % W = 0)
    IN  [ok   |-> ~(((index + n) % SizeMod) > vsize),
         view |-> [vector |-> vector, offset_ |-> index, size_ |-> n, rest_ |-> rest,
                   final_ |-> final, aligned_ |-> algn]]

\* subvector( dv, index, size ) on a dense vector: forwards to the constructor.
subvector(vector, vsize, index, n) == DenseSubvectorCtor(vector, vsize, index, n)

\* Faulty variant of the subvector of a subvector: the offset of the outer
\* subvector is not added.
subvectorOfSubvectorNoOffset(dv, vsize, index, n) ==
    DenseSubvectorCtor(dv.vector, vsize, index, n)

\* subvector( dv, index, size ) on a dense subvector dv: a DenseSubvector of
\* dv.vector_ at dv.offset_ + index; vsize is dv.vector_.size().
subvectorOfSubvector(dv, vsize, index, n) ==
    DenseSubvectorCtor(dv.vector, vsize, (dv.offset_ + index) % SizeMod, n)

\* size()
size(v) == v.size_

\* Faulty variant of the subscript operator: the offset is not added.
SubscriptNoOffset(m, v, index) == At(m, index)

\* operator[]( index ) const: the element vector_[offset_+index], the sum being
\* computed in size_t.
Subscript(m, v, index) == At(m, (v.offset_ + index) % SizeMod)

\* Faulty variant of the write through the subscript operator: the offset is not
\* added.
SubscriptWriteNoOffset(m, v, index, x) == Put(m, index, x)

\* operator[]( index ) used as an lvalue: writes vector_[offset_+index].
SubscriptWrite(m, v, index, x) == Put(m, (v.offset_ + index) % SizeMod, x)

(***************************************************************************)
(* Right-hand side operands.                                               *)
(*   kind "view":   a DenseSubvector over the vector named by .vector,     *)
(*                  range (offset, size); self: it is the target object.   *)
(*   kind "dense":  a dense vector with its own storage; vals its elements.*)
(*   kind "sparse": a sparse vector of the given size; elems its non-zero  *)
(*                  elements (index, value), ordered by index.             *)
(*   kind "mult-expr", "div-expr": the expression view * s, view / s for   *)
(*                  the view .v and the scalar vals[1].                    *)
(***************************************************************************)
\* a / b of the element type (integral): the quotient truncated towards zero.
Quot(a, b) ==
    LET abs(x) == IF x < 0 THEN 0 - x ELSE x
        q      == abs(a) \div abs(b)
    IN  IF (a < 0) = (b < 0) THEN q ELSE 0 - q

\* The storage of the second dense vector "B" of the program: as large as the
\* parent "A", holding 20, 21, ...; it is only read.
OtherMem == Iota(N, W, 20)

\* The storage a view operand refers to, m being the storage of "A".
Storage(m, rhs) == IF rhs.vector = "A" THEN m ELSE OtherMem

\* (~rhs)[i]: element i of a dense operand, read from the current storage.
RhsAt(m, rhs, i) ==
    IF rhs.kind = "view" THEN At(Storage(m, rhs), rhs.offset + i)
    ELSE IF rhs.kind = "mult-expr" THEN At(m, rhs.offset + i) * rhs.vals[1]
    ELSE IF rhs.kind = "div-expr" THEN Quot(At(m, rhs.offset + i), rhs.vals[1])
    ELSE rhs.vals[i + 1]

\* it.load() with the iterator at element i: the W elements starting at i of the
\* operand's storage (zero padding behind the last element of a dense vector).
RhsLoad(m, rhs, i) ==
    [j \in 1..W |->
        IF rhs.kind = "view"
          THEN IF rhs.offset + i + j <= Len(Storage(m, rhs))
                 THEN Storage(m, rhs)[rhs.offset + i + j] ELSE Undef
          ELSE IF rhs.kind \in {"mult-expr", "div-expr"}
            THEN IF rhs.offset + i + j <= Len(m) THEN RhsAt(m, rhs, i + j - 1) ELSE Undef
          ELSE IF i + j <= rhs.size THEN rhs.vals[i + j] ELSE 0]

\* const ResultType tmp( ~rhs ): the operand evaluated into a temporary of its own.
Evaluate(m, rhs) ==
    IF rhs.kind = "sparse"
      THEN [rhs EXCEPT !.vector = "tmp"]
      ELSE [kind |-> "dense", vector |-> "tmp", self |-> FALSE, offset |-> 0,
            size |-> rhs.size, vals |-> [i \in 1..rhs.size |-> RhsAt(m, rhs, i - 1)],
            elems |-> <<>>, v |-> NoView]

\* Faulty variant of canAlias: an alias is never reported.
canAliasNever(rhs, alias) == FALSE

\* Faulty variant of canAlias: an alias is always reported.
canAliasAlways(rhs, alias) == TRUE

\* canAlias( alias ): the operand's vector is the vector at the address alias.
canAlias(rhs, alias) == rhs.vector = alias

\* isAliased( alias )
isAliased(rhs, alias) == rhs.vector = alias

(***************************************************************************)
(* size_t arithmetic.                                                      *)
(***************************************************************************)
RECURSIVE BitAnd(_, _, _)
BitAnd(a, b, bits) ==
    IF bits = 0 THEN 0
    ELSE (a % 2) * (b % 2) + 2 * BitAnd(a \div 2, b \div 2, bits - 1)

\* size_t(-x)
Neg(x) == (SizeMod - (x % SizeMod)) % SizeMod

\* The element operation of a kernel: "=" assign, "+" add, "-" sub, "*" mult.
Apply(op, a, b) ==
    CASE op = "=" -> b
      [] op = "+" -> a + b
      [] op = "-" -> a - b
      [] op = "*" -> a * b

(***************************************************************************)
(* Scalar kernels: assign, addAssign, subAssign, multAssign of a dense     *)
(* vector (default implementations, loop unrolled by 2).                   *)
(***************************************************************************)
\* vector_[i+offset_] op= (~rhs)[i]
ScalarStep(op, m, v, rhs, i) ==
    Put(m, i + v.offset_, Apply(op, At(m, i + v.offset_), RhsAt(m, rhs, i)))

RECURSIVE ScalarLoop(_, _, _, _, _, _)
ScalarLoop(op, m, v, rhs, i, iend) ==
    IF i < iend
      THEN ScalarLoop(op, ScalarStep(op, ScalarStep(op, m, v, rhs, i), v, rhs, i + 1),
                      v, rhs, i + 2, iend)
      ELSE m

\* Faulty variant of the scalar kernels: the single element left over by the
\* unrolled loop is not handled.
ScalarKernelNoTail(op, m, v, rhs) ==
    ScalarLoop(op, m, v, rhs, 0, BitAnd(size(v), Neg(2), SizeBits))

ScalarKernel(op, m, v, rhs) ==
    LET iend == BitAnd(size(v), Neg(2), SizeBits)
        m1   == ScalarLoop(op, m, v, rhs, 0, iend)
    IN  IF iend < size(v) THEN ScalarStep(op, m1, v, rhs, iend) ELSE m1

(***************************************************************************)
(* Intrinsic access.                                                       *)
(***************************************************************************)
\* vector_.loadu( k ): the W elements of the parent's storage starting at k.
VecLoadu(m, k) == [j \in 1..W |-> IF k + j <= Len(m) THEN m[k + j] ELSE Undef]

\* vector_.storeu( k, value ), vector_.stream( k, value ): writes W elements at k.
VecStoreu(m, k, value) ==
    [p \in 1..Len(m) |-> IF p > k /\ p <= k + W THEN value[p - k] ELSE m[p]]

\* loadu( index ) of the view.
loadu(m, v, index) ==
    IF v.aligned_ \/ index # v.final_
      THEN VecLoadu(m, v.offset_ + index)
      ELSE [j \in 1..W |-> IF j - 1 < v.rest_ THEN At(m, v.offset_ + index + j - 1)
                                             ELSE Undef]

\* load( index ) of the view.
load(m, v, index) == loadu(m, v, index)

\* Faulty variant of storeu: the last register is always stored in full.
storeuFull(m, v, index, value) == VecStoreu(m, v.offset_ + index, value)

\* storeu( index, value ) of the view.
storeu(m, v, index, value) ==
    IF v.aligned_ \/ index # v.final_
      THEN VecStoreu(m, v.offset_ + index, value)
      ELSE [p \in 1..Len(m) |->
              IF p > v.offset_ + index /\ p <= v.offset_ + index + v.rest_
                THEN value[p - (v.offset_ + index)] ELSE m[p]]

(***************************************************************************)
(* Vectorized kernels.                                                     *)
(***************************************************************************)
\* The register stored at index: it.load() for assign, load(index) op it.load() else.
NewValue(op, m, v, rhs, index) ==
    IF op = "=" THEN RhsLoad(m, rhs, index)
    ELSE LET a == load(m, v, index)
             b == RhsLoad(m, rhs, index)
         IN  [j \in 1..W |-> Apply(op, a[j], b[j])]

\* One store of the 4-way unrolled loop: vector_.storeu( offset_+index, ... ).
BlockStore(op, m, v, rhs, index) ==
    VecStoreu(m, v.offset_ + index, NewValue(op, m, v, rhs, index))

RECURSIVE BlockLoop(_, _, _, _, _, _)
BlockLoop(op, m, v, rhs, i, iend) ==
    IF i < iend
      THEN LET m1 == BlockStore(op, m, v, rhs, i)
               m2 == BlockStore(op, m1, v, rhs, i + W)
               m3 == BlockStore(op, m2, v, rhs, i + W * 2)
               m4 == BlockStore(op, m3, v, rhs, i + W * 3)
           IN  BlockLoop(op, m4, v, rhs, i + W * 4, iend)
      ELSE m

RECURSIVE RemainderLoop(_, _, _, _, _)
RemainderLoop(op, m, v, rhs, i) ==
    IF i < v.size_
      THEN RemainderLoop(op, storeu(m, v, i, NewValue(op, m, v, rhs, i)), v, rhs, i + W)
      ELSE m

\* Faulty variant of the vectorized kernels: the blocked loop only.
VectorKernelBlocksOnly(op, m, v, rhs) ==
    BlockLoop(op, m, v, rhs, 0, BitAnd(v.size_, Neg(W * 4), SizeBits))

\* The blocked loop followed by the loop over the remaining registers.
VectorKernel(op, m, v, rhs) ==
    LET iend == BitAnd(v.size_, Neg(W * 4), SizeBits)
    IN  RemainderLoop(op, BlockLoop(op, m, v, rhs, 0, iend), v, rhs, iend)

\* (~rhs).load( i ): of a view its load(), of a dense vector the W elements at i.
RhsLoadAt(m, rhs, i) ==
    IF rhs.kind = "view" THEN load(Storage(m, rhs), rhs.v, i) ELSE RhsLoad(m, rhs, i)

RECURSIVE StreamLoop(_, _, _, _)
StreamLoop(m, v, rhs, i) ==
    IF i < size(v)
      THEN StreamLoop(VecStoreu(m, v.offset_ + i, RhsLoadAt(m, rhs, i)), v, rhs, i + W)
      ELSE m

\* Faulty variant of the streaming condition: the operand is not asked isAliased.
UseStreamNoAliasTest(v, rhs) ==
    /\ useStreaming
    /\ v.aligned_
    /\ v.size_ > StreamThreshold

\* Faulty variant of the streaming condition: the alignment flag is not looked at.
UseStreamNoAlignedTest(v, rhs) ==
    /\ useStreaming
    /\ v.size_ > StreamThreshold
    /\ ~isAliased(rhs, v.vector)

\* The condition of the streaming branch of the vectorized assign.
UseStream(v, rhs) ==
    /\ useStreaming
    /\ v.aligned_
    /\ v.size_ > StreamThreshold
    /\ ~isAliased(rhs, v.vector)

(***************************************************************************)
(* Sparse kernels.                                                         *)
(***************************************************************************)
\* reset(): every element of the view is set to its default value.
RECURSIVE ResetLoop(_, _, _)
ResetLoop(m, i, iend) == IF i < iend THEN ResetLoop(Put(m, i, 0), i + 1, iend) ELSE m

reset(m, v) == ResetLoop(m, v.offset_, v.offset_ + v.size_)

\* vector_[element->index()+offset_] op= element->value() for every element.
RECURSIVE SparseLoop(_, _, _, _, _)
SparseLoop(op, m, v, elems, e) ==
    IF e <= Len(elems)
      THEN LET k == elems[e].index + v.offset_
           IN  SparseLoop(op, Put(m, k, Apply(op, At(m, k), elems[e].value)), v, elems, e + 1)
      ELSE m

\* vector_[element->index()+offset_] = tmp[element->index()] * element->value()
RECURSIVE SparseMultLoop(_, _, _, _, _)
SparseMultLoop(m, v, tmp, elems, e) ==
    IF e <= Len(elems)
      THEN SparseMultLoop(Put(m, elems[e].index + v.offset_,
                              tmp[elems[e].index + 1] * elems[e].value),
                          v, tmp, elems, e + 1)
      ELSE m

(***************************************************************************)
(* The kernels as selected by the type of the right-hand side operand.     *)
(* Each yields the new storage and the branch taken.                       *)
(***************************************************************************)
\* VectorizedAssign<VT2>::value; simd: VT2 is vectorizable with the same element type.
VectorizedAssign(simd) == vectorizable /\ simd

\* VectorizedAddAssign<VT2>::value; simd includes IntrinsicTrait<ElementType>::addition.
VectorizedAddAssign(simd) == vectorizable /\ simd

\* VectorizedSubAssign<VT2>::value; simd includes IntrinsicTrait<ElementType>::subtraction.
VectorizedSubAssign(simd) == vectorizable /\ simd

\* VectorizedMultAssign<VT2>::value; simd includes IntrinsicTrait<ElementType>::multiplication.
VectorizedMultAssign(simd) == vectorizable /\ simd

assign(m, v, rhs, simd) ==
    IF rhs.kind = "sparse"
      THEN [mem |-> SparseLoop("=", m, v, rhs.elems, 1), path |-> "sparse"]
    ELSE IF VectorizedAssign(simd)
      THEN IF UseStream(v, rhs)
             THEN [mem |-> StreamLoop(m, v, rhs, 0), path |-> "stream"]
             ELSE [mem |-> VectorKernel("=", m, v, rhs), path |-> "vector"]
    ELSE [mem |-> ScalarKernel("=", m, v, rhs), path |-> "scalar"]

addAssign(m, v, rhs, simd) ==
    IF rhs.kind = "sparse"
      THEN [mem |-> SparseLoop("+", m, v, rhs.elems, 1), path |-> "sparse"]
    ELSE IF VectorizedAddAssign(simd)
      THEN [mem |-> VectorKernel("+", m, v, rhs), path |-> "vector"]
    ELSE [mem |-> ScalarKernel("+", m, v, rhs), path |-> "scalar"]

subAssign(m, v, rhs, simd) ==
    IF rhs.kind = "sparse"
      THEN [mem |-> SparseLoop("-", m, v, rhs.elems, 1), path |-> "sparse"]
    ELSE IF VectorizedSubAssign(simd)
      THEN [mem |-> VectorKernel("-", m, v, rhs), path |-> "vector"]
    ELSE [mem |-> ScalarKernel("-", m, v, rhs), path |-> "scalar"]

\* Faulty variant of multAssign: the sparse kernel does not reset the subvector.
multAssignNoReset(m, v, rhs, simd) ==
    IF rhs.kind = "sparse"
      THEN LET tmp == [i \in 1..v.size_ |-> At(m, v.offset_ + i - 1)]
           IN  [mem |-> SparseMultLoop(m, v, tmp, rhs.elems, 1), path |-> "sparse"]
    ELSE IF VectorizedMultAssign(simd)
      THEN [mem |-> VectorKernel("*", m, v, rhs), path |-> "vector"]
    ELSE [mem |-> ScalarKernel("*", m, v, rhs), path |-> "scalar"]

multAssign(m, v, rhs, simd) ==
    IF rhs.kind = "sparse"
      THEN LET tmp == [i \in 1..v.size_ |-> At(m, v.offset_ + i - 1)]
           IN  [mem |-> SparseMultLoop(reset(m, v), v, tmp, rhs.elems, 1),
                path |-> "sparse"]
    ELSE IF VectorizedMultAssign(simd)
      THEN [mem |-> VectorKernel("*", m, v, rhs), path |-> "vector"]
    ELSE [mem |-> ScalarKernel("*", m, v, rhs), path |-> "scalar"]

(***************************************************************************)
(* Assignment operators. Each yields the new storage, the exception thrown *)
(* ("none" if the call returns), the branch executed and whether the       *)
(* right-hand side was evaluated into a temporary.                         *)
(***************************************************************************)
Returned(r, t) == [mem |-> r.mem, err |-> "none", path |-> r.path, tmp |-> t]

Thrown(m) == [mem |-> m, err |-> "invalid_argument", path |-> "none", tmp |-> FALSE]

\* Faulty variant of the copy assignment: no test for self-assignment.
CopyAssignNoSelfTest(m, v, rhs) ==
    IF size(v) # rhs.size
      THEN Thrown(m)
    ELSE IF canAlias(rhs, v.vector)
      THEN Returned(assign(m, v, Evaluate(m, rhs), TRUE), TRUE)
    ELSE Returned(assign(m, v, rhs, TRUE), FALSE)

\* operator=( const DenseSubvector& rhs )
CopyAssign(m, v, rhs) ==
    IF rhs.self \/ (v.vector = rhs.vector /\ v.offset_ = rhs.offset)
      THEN [mem |-> m, err |-> "none", path |-> "return", tmp |-> FALSE]
    ELSE IF size(v) # rhs.size
      THEN Thrown(m)
    ELSE IF canAlias(rhs, v.vector)
      THEN Returned(assign(m, v, Evaluate(m, rhs), TRUE), TRUE)
    ELSE Returned(assign(m, v, rhs, TRUE), FALSE)

\* Faulty variant of the assignment: the subvector is reset for a sparse operand
\* before the sizes are compared.
AssignResetFirst(m, v, rhs, simd) ==
    LET m0 == IF rhs.kind = "sparse" THEN reset(m, v) ELSE m
    IN  IF size(v) # rhs.size
          THEN Thrown(m0)
        ELSE IF canAlias(rhs, v.vector)
          THEN Returned(assign(m, v, Evaluate(m, rhs), simd), TRUE)
        ELSE Returned(assign(m0, v, rhs, simd), FALSE)

\* operator=( const Vector<VT2,TF>& rhs )
Assign(m, v, rhs, simd) ==
    IF size(v) # rhs.size
      THEN Thrown(m)
    ELSE IF canAlias(rhs, v.vector)
      THEN Returned(assign(m, v, Evaluate(m, rhs), simd), TRUE)
    ELSE Returned(assign(IF rhs.kind = "sparse" THEN reset(m, v) ELSE m, v, rhs, simd),
                  FALSE)

\* operator+=( const Vector<VT2,TF>& rhs )
AddAssign(m, v, rhs, simd) ==
    IF size(v) # rhs.size
      THEN Thrown(m)
    ELSE IF canAlias(rhs, v.vector)
      THEN Returned(addAssign(m, v, Evaluate(m, rhs), simd), TRUE)
    ELSE Returned(addAssign(m, v, rhs, simd), FALSE)

\* operator-=( const Vector<VT2,TF>& rhs )
SubAssign(m, v, rhs, simd) ==
    IF size(v) # rhs.size
      THEN Thrown(m)
    ELSE IF canAlias(rhs, v.vector)
      THEN Returned(subAssign(m, v, Evaluate(m, rhs), simd), TRUE)
    ELSE Returned(subAssign(m, v, rhs, simd), FALSE)

\* operator*=( const Vector<VT2,TF>& rhs )
MultAssign(m, v, rhs, simd) ==
    IF size(v) # rhs.size
      THEN Thrown(m)
    ELSE IF canAlias(rhs, v.vector) \/ rhs.kind = "sparse"
      THEN Returned(multAssign(m, v, Evaluate(m, rhs), simd), TRUE)
    ELSE Returned(multAssign(m, v, rhs, simd), FALSE)

\* (*this) * rhs and (*this) / rhs: the expression of the view v and the scalar s.
\* It refers to the view, and so to the parent of the view.
ScalarExpr(kind, v, s) ==
    [kind |-> kind, vector |-> v.vector, self |-> FALSE, offset |-> v.offset_,
     size |-> v.size_, vals |-> <<s>>, elems |-> <<>>, v |-> v]

\* operator*=( Other rhs ): operator=( (*this) * rhs )
MultAssignScalar(m, v, s, simd) == Assign(m, v, ScalarExpr("mult-expr", v, s), simd)

\* Faulty variant of the division by a scalar: the product is assigned.
DivAssignScalarAsProduct(m, v, s, simd) ==
    Assign(m, v, ScalarExpr("mult-expr", v, s), simd)

\* operator/=( Other rhs ): operator=( (*this) / rhs ), rhs # 0
DivAssignScalar(m, v, s, simd) == Assign(m, v, ScalarExpr("div-expr", v, s), simd)

\* for( size_t i=offset_; i<iend; ++i ) vector_[i] = rhs
RECURSIVE FillLoop(_, _, _, _)
FillLoop(m, i, iend, x) == IF i < iend THEN FillLoop(Put(m, i, x), i + 1, iend, x) ELSE m

\* Faulty variant of the homogeneous assignment: the loop starts at the begin of
\* the parent.
AssignScalarFromBegin(m, v, rhs) == FillLoop(m, 0, (v.offset_ + v.size_) % SizeMod, rhs)

\* operator=( const ElementType& rhs )
AssignScalar(m, v, rhs) == FillLoop(m, v.offset_, (v.offset_ + v.size_) % SizeMod, rhs)

\* for( size_t i=offset_; i<iend; ++i ) vector_[i] *= scalar
RECURSIVE ScaleLoop(_, _, _, _)
ScaleLoop(m, i, iend, s) ==
    IF i < iend THEN ScaleLoop(Put(m, i, At(m, i) * s), i + 1, iend, s) ELSE m

\* scale( const Other& scalar )
scale(m, v, scalar) == ScaleLoop(m, v.offset_, (v.offset_ + v.size_) % SizeMod, scalar)

\* reset( dv ), the free function: dv.reset()
resetSubvector(m, dv) == reset(m, dv)

\* clear( dv ): dv.reset()
clear(m, dv) == reset(m, dv)

(***************************************************************************)
(* The operands the calls are made with.                                   *)
(***************************************************************************)
\* The sizes tried for an operand assigned to a view of size n.
OperandSizes(n) == {k \in {n - 1, n, n + 1} : k >= 0}

\* The view subvector( vector, o, l ) as an operand.
ViewOperand(vector, o, l, self) ==
    [kind |-> "view", vector |-> vector, self |-> self, offset |-> o, size |-> l,
     vals |-> <<>>, elems |-> <<>>, v |-> subvector(vector, N, o, l).view]

\* Views of every valid range over the target's parent "A" and over the vector "B",
\* and the target view itself.
ViewOperands ==
    {ViewOperand(p[1], p[2], p[3], FALSE) :
        p \in {q \in {"A", "B"} \X (0..N) \X (0..N) : subvector(q[1], N, q[2], q[3]).ok}}
    \cup {ViewOperand(view.vector, view.offset_, view.size_, TRUE)}

\* Dense vectors with storage of their own: (10, 10, ...) and (2, 3, 4, ...).
DenseOperands ==
    {[kind |-> "dense", vector |-> "d", self |-> FALSE, offset |-> 0, size |-> k,
      vals |-> [i \in 1..k |-> IF c = 0 THEN i + 1 ELSE c], elems |-> <<>>,
      v |-> NoView] :
        k \in OperandSizes(size(view)), c \in {0, 10}}

\* The elements (index, 4 + index) of a sparse vector for the indices below k in S.
RECURSIVE Elements(_, _, _)
Elements(S, i, k) ==
    IF i >= k THEN <<>>
    ELSE (IF i \in S THEN <<[index |-> i, value |-> 4 + i]>> ELSE <<>>)
         \o Elements(S, i + 1, k)

\* Sparse vectors: no element, the single element 1, the even indices, every index.
SparseOperands ==
    {[kind |-> "sparse", vector |-> "s", self |-> FALSE, offset |-> 0, size |-> k,
      vals |-> <<>>, elems |-> Elements(S, 0, k), v |-> NoView] :
        k \in OperandSizes(size(view)),
        S \in {{}, {1}, {i \in 0..MaxN : i % 2 = 0}, 0..MaxN}}

\* Sparse expressions that refer to the parent "A" (such as the product of the
\* parent and a sparse vector), given by the elements they evaluate to: the single
\* element 1, the even indices.
SparseExprOperands ==
    {[kind |-> "sparse", vector |-> "A", self |-> FALSE, offset |-> 0, size |-> k,
      vals |-> <<>>, elems |-> Elements(S, 0, k), v |-> NoView] :
        k \in OperandSizes(size(view)),
        S \in {{1}, {i \in 0..MaxN : i % 2 = 0}}}

\* The values of simd that make a difference for the operand.
SimdChoices(rhs) == IF vectorizable /\ rhs.kind # "sparse" THEN BOOLEAN ELSE {FALSE}

\* The record of a call of an assignment operator.
Called(op, rhs, r) ==
    [NoCall EXCEPT !.op = op, !.err = r.err, !.path = r.path, !.tmp = r.tmp,
                   !.pre = mem, !.rhs = rhs]

(***************************************************************************)
(* Initial states and the construction actions.                            *)
(***************************************************************************)
Init ==
    /\ W \in Widths
    /\ useStreaming \in BOOLEAN
    /\ N \in 0..MaxN
    /\ mem = Iota(N, W, 0)
    /\ view = NoView
    /\ ctorArgs = [index |-> 0, n |-> 0]
    /\ pc = "init"
    /\ last = NoCall
    /\ views = {}

\* subvector( parent, index, n ) with index drawn from I and n from S.
ConstructAt(I, S) ==
    /\ pc = "init"
    /\ \E index \in I, n \in S :
         LET r == subvector("A", N, index, n)
         IN  /\ ctorArgs' = [index |-> index, n |-> n]
             /\ IF r.ok
                  THEN /\ view' = r.view
                       /\ pc' = "view"
                       /\ last' = [NoCall EXCEPT !.op = "subvector"]
                  ELSE /\ view' = NoView
                       /\ pc' = "done"
                       /\ last' = [NoCall EXCEPT !.op = "subvector",
                                                 !.err = "invalid_argument"]
    /\ UNCHANGED <<W, useStreaming, N, mem, views>>

\* subvector( parent, index, n ) with both arguments drawn from S.
ConstructOver(S) == ConstructAt(S, S)

\* Construction with small arguments (no wrap-around of index + n).
Construct == ConstructOver(0..(MaxN + 1))

\* Construction with any pair of size_t arguments.
ConstructAny == ConstructOver(0..(SizeMod - 1))

\* view[i] = x
ElemWrite ==
    /\ pc = "view"
    /\ \E i \in 0..(size(view) - 1), x \in {7} :
         /\ mem' = SubscriptWrite(mem, view, i, x)
         /\ last' = [NoCall EXCEPT !.op = "write", !.pre = mem, !.i = i, !.x = x]
    /\ pc' = "done"
    /\ UNCHANGED <<W, useStreaming, N, view, ctorArgs, views>>

\* view = rhs for a view rhs of the same type (copy assignment).
CopyAssignment ==
    /\ pc = "view"
    /\ \E rhs \in ViewOperands :
         LET r == CopyAssign(mem, view, rhs)
         IN  mem' = r.mem /\ last' = Called("copy=", rhs, r)
    /\ pc' = "done"
    /\ UNCHANGED <<W, useStreaming, N, view, ctorArgs, views>>

\* view = rhs for a dense or sparse vector or a sparse expression rhs.
Assignment ==
    /\ pc = "view"
    /\ \E rhs \in DenseOperands \cup SparseOperands \cup SparseExprOperands :
         \E simd \in SimdChoices(rhs) :
           LET r == Assign(mem, view, rhs, simd)
           IN  mem' = r.mem /\ last' = Called("=", rhs, r)
    /\ pc' = "done"
    /\ UNCHANGED <<W, useStreaming, N, view, ctorArgs, views>>

\* view += rhs
AdditionAssignment ==
    /\ pc = "view"
    /\ \E rhs \in ViewOperands \cup DenseOperands \cup SparseOperands :
         \E simd \in SimdChoices(rhs) :
           LET r == AddAssign(mem, view, rhs, simd)
           IN  mem' = r.mem /\ last' = Called("+=", rhs, r)
    /\ pc' = "done"
    /\ UNCHANGED <<W, useStreaming, N, view, ctorArgs, views>>

\* view -= rhs
SubtractionAssignment ==
    /\ pc = "view"
    /\ \E rhs \in ViewOperands \cup DenseOperands \cup SparseOperands :
         \E simd \in SimdChoices(rhs) :
           LET r == SubAssign(mem, view, rhs, simd)
           IN  mem' = r.mem /\ last' = Called("-=", rhs, r)
    /\ pc' = "done"
    /\ UNCHANGED <<W, useStreaming, N, view, ctorArgs, views>>

\* view *= rhs
MultiplicationAssignment ==
    /\ pc = "view"
    /\ \E rhs \in ViewOperands \cup DenseOperands \cup SparseOperands :
         \E simd \in SimdChoices(rhs) :
           LET r == MultAssign(mem, view, rhs, simd)
           IN  mem' = r.mem /\ last' = Called("*=", rhs, r)
    /\ pc' = "done"
    /\ UNCHANGED <<W, useStreaming, N, view, ctorArgs, views>>

\* The addresses canAlias and isAliased are asked about: the parent, the second
\* dense vector, a vector with storage of its own.
Addresses == {"A", "B", "d"}

\* view.canAlias( alias ) and view.isAliased( alias )
AliasQuery ==
    /\ pc = "view"
    /\ \E alias \in Addresses :
         LET self == ViewOperand(view.vector, view.offset_, view.size_, TRUE)
         IN  last' = [NoCall EXCEPT !.op = "alias", !.pre = mem, !.rhs = self,
                                    !.alias = alias,
                                    !.can = canAlias(self, alias),
                                    !.is = isAliased(self, alias)]
    /\ pc' = "done"
    /\ UNCHANGED <<W, useStreaming, N, mem, view, ctorArgs, views>>

\* view.assign( rhs ): the kernel called by an expression evaluation, without the
\* operator in front of it; the sizes are equal (BLAZE_INTERNAL_ASSERT).
KernelAssign ==
    /\ pc = "view"
    /\ \E rhs \in {r \in ViewOperands \cup DenseOperands :
                       r.size = size(view) /\ ~r.self} :
         \E simd \in SimdChoices(rhs) :
           LET r == Returned(assign(mem, view, rhs, simd), FALSE)
           IN  mem' = r.mem /\ last' = Called("assign", rhs, r)
    /\ pc' = "done"
    /\ UNCHANGED <<W, useStreaming, N, view, ctorArgs, views>>

\* The scalars of the calls with a scalar operand.
Scalars == {0, 2, 0 - 3}

\* view *= s for a scalar s
ScalarMultiplication ==
    /\ pc = "view"
    /\ \E s \in Scalars, simd \in SimdChoices(ScalarExpr("mult-expr", view, 0)) :
         LET r == MultAssignScalar(mem, view, s, simd)
         IN  /\ mem' = r.mem
             /\ last' = [Called("scalar*=", ScalarExpr("mult-expr", view, s), r)
                            EXCEPT !.x = s]
    /\ pc' = "done"
    /\ UNCHANGED <<W, useStreaming, N, view, ctorArgs, views>>

\* view /= s for a scalar s other than zero
ScalarDivision ==
    /\ pc = "view"
    /\ \E s \in Scalars \ {0}, simd \in SimdChoices(ScalarExpr("div-expr", view, 1)) :
         LET r == DivAssignScalar(mem, view, s, simd)
         IN  /\ mem' = r.mem
             /\ last' = [Called("scalar/=", ScalarExpr("div-expr", view, s), r)
                            EXCEPT !.x = s]
    /\ pc' = "done"
    /\ UNCHANGED <<W, useStreaming, N, view, ctorArgs, views>>

Next ==
    \/ Construct
    \/ ElemWrite
    \/ CopyAssignment
    \/ Assignment
    \/ AdditionAssignment
    \/ SubtractionAssignment
    \/ MultiplicationAssignment
    \/ AliasQuery
    \/ KernelAssign
    \/ ScalarMultiplication
    \/ ScalarDivision

Spec == Init /\ [][Next]_vars

NextCtor == ConstructAny

SpecCtor == Init /\ [][NextCtor]_vars

(***************************************************************************)
(* Subvectors of cross product expressions (the specialisations for        *)
(* DVecDVecCrossExpr, DVecSVecCrossExpr, SVecDVecCrossExpr and             *)
(* SVecSVecCrossExpr, which have the same members).                        *)
(***************************************************************************)
\* The size of a cross product expression.
CrossSize == 3

\* Element k of the operand vector at address a: "A" is the parent, "B" the second
\* dense vector, "d" the vector (1, 2, 5).
OperandAt(m, a, k) ==
    IF a = "A" THEN At(m, k)
    ELSE IF a = "B" THEN At(OtherMem, k)
    ELSE k * k + 1

\* The expression lhs % rhs; the node holds references to its two operands.
CrossExpr(lhs, rhs) == [lhs |-> lhs, rhs |-> rhs]

\* expression[k], k < 3.
ExprAt(m, e, k) ==
    LET a(j) == OperandAt(m, e.lhs, j)
        b(j) == OperandAt(m, e.rhs, j)
    IN  CASE k = 0 -> a(1) * b(2) - a(2) * b(1)
          [] k = 1 -> a(2) * b(0) - a(0) * b(2)
          [] OTHER -> a(0) * b(1) - a(1) * b(0)

\* The values a read of expression[k] can yield: for k >= 3 the access is outside
\* the expression and its outcome is not determined.
ExprReads(m, e, k) ==
    IF k < CrossSize THEN {ExprAt(m, e, k)} ELSE {Undef, ExprAt(m, e, 2)}

\* expression.canAlias( alias ), expression.isAliased( alias )
ExprCanAlias(e, alias) == e.lhs = alias \/ e.rhs = alias

ExprIsAliased(e, alias) == e.lhs = alias \/ e.rhs = alias

\* DenseSubvector( const CPE& vector, size_t index, size_t n ): the expression is
\* copied into the member vector_; there is no test of the range.
CrossSubvectorCtor(e, index, n) == [vector |-> e, offset_ |-> index, size_ |-> n]

\* subvector( dv, index, size ) for a cross product expression dv.
subvectorCross(e, index, n) == CrossSubvectorCtor(e, index, n)

\* enum { vectorizable = 0 }
CrossVectorizable == FALSE

\* Faulty variant of canAlias of the specialisation: only the left operand of the
\* expression is asked.
CrossCanAliasLeftOnly(v, alias) == v.vector.lhs = alias

\* canAlias( alias ) of the specialisation.
CrossCanAlias(v, alias) == ExprCanAlias(v.vector, alias)

\* isAliased( alias ) of the specialisation.
CrossIsAliased(v, alias) == ExprIsAliased(v.vector, alias)

\* The record of a call on the subvector of the expression e.
CrossCall(op, e) ==
    [NoCall EXCEPT !.op = op, !.pre = mem,
                   !.rhs = [NoRhs EXCEPT !.kind = "cross", !.vector = e]]

InitCross ==
    /\ W \in Widths
    /\ useStreaming \in BOOLEAN
    /\ N = CrossSize
    /\ mem = Iota(CrossSize, W, 1)
    /\ view = NoView
    /\ ctorArgs = [index |-> 0, n |-> 0]
    /\ pc = "init"
    /\ last = NoCall
    /\ views = {}

\* subvector( lhs % rhs, index, n )
ConstructCross ==
    /\ pc = "init"
    /\ \E lhs \in Addresses, rhs \in Addresses :
         \E index \in 0..(CrossSize + 1), n \in 0..(CrossSize + 1) :
           /\ view' = subvectorCross(CrossExpr(lhs, rhs), index, n)
           /\ ctorArgs' = [index |-> index, n |-> n]
           /\ last' = CrossCall("subvector", CrossExpr(lhs, rhs))
    /\ pc' = "cross"
    /\ UNCHANGED <<W, useStreaming, N, mem, views>>

\* x = view[i]: operator[] of the specialisation returns vector_[offset_+index].
CrossRead ==
    /\ pc = "cross"
    /\ \E i \in 0..(view.size_ - 1) :
         \E x \in ExprReads(mem, view.vector, view.offset_ + i) :
           last' = [CrossCall("read", last.rhs.vector) EXCEPT !.i = i, !.x = x]
    /\ pc' = "done"
    /\ UNCHANGED <<W, useStreaming, N, mem, view, ctorArgs, views>>

\* view.canAlias( alias ) and view.isAliased( alias ) of the specialisation.
CrossAliasQuery ==
    /\ pc = "cross"
    /\ \E alias \in Addresses :
         last' = [CrossCall("alias", last.rhs.vector) EXCEPT
                     !.alias = alias,
                     !.can = CrossCanAlias(view, alias),
                     !.is = CrossIsAliased(view, alias)]
    /\ pc' = "done"
    /\ UNCHANGED <<W, useStreaming, N, mem, view, ctorArgs, views>>

NextCross ==
    \/ ConstructCross
    \/ CrossRead
    \/ CrossAliasQuery

SpecCross == InitCross /\ [][NextCross]_vars

(***************************************************************************)
(* Programs with several live views over one parent: views are created     *)
(* from the parent and from other views, written through and destroyed in  *)
(* any order. view is the view returned by the last call (NoView if the    *)
(* call returned none), views the set of live views.                       *)
(***************************************************************************)
\* A live view as the operand of a call.
AsOperand(w) ==
    [NoRhs EXCEPT !.kind = "view", !.vector = w.vector, !.offset = w.offset_,
                  !.size = w.size_, !.v = w]

InitViews ==
    /\ W \in Widths
    /\ useStreaming = FALSE
    /\ N \in 0..MaxViewN
    /\ mem = Iota(N, W, 0)
    /\ view = NoView
    /\ ctorArgs = [index |-> 0, n |-> 0]
    /\ pc = "views"
    /\ last = NoCall
    /\ views = {}

\* The effect of a constructor call with result r on the live views.
Constructed(r, call) ==
    /\ view' = IF r.ok THEN r.view ELSE NoView
    /\ views' = IF r.ok THEN views \cup {r.view} ELSE views
    /\ last' = [call EXCEPT !.err = IF r.ok THEN "none" ELSE "invalid_argument"]

\* subvector( parent, index, n ) while other views are live.
ConstructView ==
    /\ pc = "views"
    /\ Cardinality(views) < MaxViews
    /\ \E index \in 0..(MaxViewN + 1), n \in 0..(MaxViewN + 1) :
         Constructed(subvector("A", N, index, n),
                     [NoCall EXCEPT !.op = "subvector", !.pre = mem, !.i = index,
                                    !.x = n])
    /\ UNCHANGED <<W, useStreaming, N, mem, ctorArgs, pc>>

\* subvector( outer, index, n ) for a live view outer.
NestedSubvector ==
    /\ pc = "views"
    /\ Cardinality(views) < MaxViews
    /\ \E outer \in views :
         \E index \in 0..(MaxViewN + 1), n \in 0..(MaxViewN + 1) :
           Constructed(subvectorOfSubvector(outer, N, index, n),
                       [NoCall EXCEPT !.op = "nested", !.pre = mem,
                                      !.rhs = AsOperand(outer), !.i = index, !.x = n])
    /\ UNCHANGED <<W, useStreaming, N, mem, ctorArgs, pc>>

\* w[i] = x for a live view w.
WriteThrough ==
    /\ pc = "views"
    /\ \E w \in views :
         \E i \in 0..(size(w) - 1), x \in {7} :
           /\ mem' = SubscriptWrite(mem, w, i, x)
           /\ last' = [NoCall EXCEPT !.op = "write", !.pre = mem,
                                     !.rhs = AsOperand(w), !.i = i, !.x = x]
    /\ view' = NoView
    /\ UNCHANGED <<W, useStreaming, N, ctorArgs, pc, views>>

\* The end of the lifetime of a live view: the class has no destructor of its own,
\* the members are released and nothing else happens.
DestroyView ==
    /\ pc = "views"
    /\ \E w \in views :
         /\ views' = views \ {w}
         /\ last' = [NoCall EXCEPT !.op = "destroy", !.pre = mem, !.rhs = AsOperand(w)]
    /\ view' = NoView
    /\ UNCHANGED <<W, useStreaming, N, mem, ctorArgs, pc>>

NextViews ==
    \/ ConstructView
    \/ NestedSubvector
    \/ WriteThrough
    \/ DestroyView

SpecViews == InitViews /\ [][NextViews]_vars

(***************************************************************************)
(* One call of an assignment operator, statement by statement. pc is the   *)
(* statement the call is at: "size-check" (the comparison of the sizes),   *)
(* "alias-check" (the test of canAlias), "path-select" (the choice of the  *)
(* kernel and of its branch), "execute" (the loops of the kernel, one      *)
(* statement per step), "done" (the call has returned) or "error" (it has  *)
(* thrown). last is the call: .i the loop index, .phase the loop.          *)
(***************************************************************************)
\* The element operation of the operator op.
ElementOp(op) ==
    CASE op \in {"copy=", "="} -> "="
      [] op = "+=" -> "+"
      [] op = "-=" -> "-"
      [] op = "*=" -> "*"

\* Faulty variant of the test for a temporary: the operand is always used directly.
NeedsTemporaryNever(op, v, rhs) == FALSE

\* The test that sends the operand into a temporary: canAlias, and for operator*=
\* also IsSparseVector<VT2>::value.
NeedsTemporary(op, v, rhs) ==
    canAlias(rhs, v.vector) \/ (op = "*=" /\ rhs.kind = "sparse")

\* The operand the kernel of the call c is given: the temporary or the operand.
KernelOperand(c) == IF c.tmp THEN Evaluate(c.pre, c.rhs) ELSE c.rhs

\* The kernel the operator op calls for the operand rhs and the branch it takes:
\* the overload for sparse operands, the vectorized one (for the assignment with its
\* streaming branch) or the default one.
KernelPath(op, v, rhs, simd) ==
    IF rhs.kind = "sparse" THEN "sparse"
    ELSE IF op \in {"copy=", "="}
      THEN IF VectorizedAssign(simd)
             THEN IF UseStream(v, rhs) THEN "stream" ELSE "vector"
             ELSE "scalar"
    ELSE IF (op = "+=" /\ VectorizedAddAssign(simd))
            \/ (op = "-=" /\ VectorizedSubAssign(simd))
            \/ (op = "*=" /\ VectorizedMultAssign(simd))
      THEN "vector"
    ELSE "scalar"

\* The operator op, as a whole.
Operator(op, m, v, rhs, simd) ==
    CASE op = "copy=" -> CopyAssign(m, v, rhs)
      [] op = "=" -> Assign(m, v, rhs, simd)
      [] op = "+=" -> AddAssign(m, v, rhs, simd)
      [] op = "-=" -> SubAssign(m, v, rhs, simd)
      [] op = "*=" -> MultAssign(m, v, rhs, simd)

\* reset() is called before the loop over the elements of a sparse operand: by
\* operator= on the branch without temporary and by the sparse multAssign.
ResetsFirst(c) ==
    /\ KernelOperand(c).kind = "sparse"
    /\ (c.op = "*=" \/ (c.op = "=" /\ ~c.tmp))

\* The next statement of the loop the kernel of the call c is in, on the storage m
\* of the parent of v: the new storage, loop index and loop, and whether the kernel
\* has returned instead (the condition of its last loop was false). A statement is
\* one element assignment of a default kernel, one register store of a vectorized
\* kernel, one element of the sparse operand or one element reset.
KernelStatement(m, v, c) ==
    LET rhs  == KernelOperand(c)
        e    == ElementOp(c.op)
        go(m1, i1, ph) == [mem |-> m1, i |-> i1, phase |-> ph, fin |-> FALSE]
        fin  == [mem |-> m, i |-> c.i, phase |-> c.phase, fin |-> TRUE]
    IN  CASE c.path = "scalar" ->
               IF c.i < size(v)
                 THEN go(ScalarStep(e, m, v, rhs, c.i), c.i + 1, c.phase)
                 ELSE fin
          [] c.path = "vector" ->
               IF c.i < BitAnd(v.size_, Neg(W * 4), SizeBits)
                 THEN go(BlockStore(e, m, v, rhs, c.i), c.i + W, c.phase)
               ELSE IF c.i < v.size_
                 THEN go(storeu(m, v, c.i, NewValue(e, m, v, rhs, c.i)), c.i + W, c.phase)
               ELSE fin
          [] c.path = "stream" ->
               IF c.i < size(v)
                 THEN go(VecStoreu(m, v.offset_ + c.i, RhsLoadAt(m, rhs, c.i)),
                         c.i + W, c.phase)
                 ELSE fin
          [] c.path = "sparse" ->
               IF c.phase = "reset"
                 THEN IF c.i < v.size_
                        THEN go(Put(m, v.offset_ + c.i, 0), c.i + 1, c.phase)
                        ELSE go(m, 0, "elements")
               ELSE IF c.i < Len(rhs.elems)
                 THEN LET el == rhs.elems[c.i + 1]
                          k  == el.index + v.offset_
                      IN  go(Put(m, k, IF e = "*" THEN At(c.pre, k) * el.value
                                                  ELSE Apply(e, At(m, k), el.value)),
                             c.i + 1, c.phase)
               ELSE fin

\* The operands of the calls followed statement by statement. Of the size of the
\* target: the dense vector (2, 3, ...), the sparse vectors with the element 1 and
\* with the even elements, the views over the parent at its begin and at its end,
\* the view over "B" at its begin, the target itself. Of another size: the dense
\* vector and the view over the parent with one element more.
CallOperands(op) ==
    LET n  == size(view)
        vs == {r \in ViewOperands :
                  \/ r.self
                  \/ r.size = n /\ r.offset = 0
                  \/ r.size = n /\ r.vector = "A" /\ r.offset + r.size = N
                  \/ r.size = n + 1 /\ r.vector = "A" /\ r.offset = 0}
        ds == {r \in DenseOperands : r.size >= n /\ (r.size = 0 \/ r.vals[1] = 2)}
        ss == {r \in SparseOperands :
                  r.size = n /\ (\A e \in 1..Len(r.elems) :
                                    r.elems[e].index = 1 \/ r.elems[e].index % 2 = 0)}
    IN  IF op = "copy=" THEN vs
        ELSE IF op = "=" THEN ds \cup ss
        ELSE vs \cup ds \cup ss

\* The first elements of the target views of these calls: the begin of the parent,
\* its second element, the begin of a later register.
CallOffsets == {0, 1, 4}

InitCall ==
    /\ W \in Widths
    /\ useStreaming \in BOOLEAN
    /\ N \in {MaxN - 1, MaxN}
    /\ mem = Iota(N, W, 0)
    /\ view = NoView
    /\ ctorArgs = [index |-> 0, n |-> 0]
    /\ pc = "init"
    /\ last = NoCall
    /\ views = {}

\* The call is made. The copy assignment begins with the test for self-assignment
\* and returns at once if it is true.
CallBegin ==
    /\ pc = "view"
    /\ \E op \in {"copy=", "=", "+=", "-=", "*="} :
         \E rhs \in CallOperands(op) :
           \E simd \in {op = "copy=" \/ rhs.kind # "sparse"} :
             LET c == [NoCall EXCEPT !.op = op, !.pre = mem, !.rhs = rhs, !.simd = simd]
             IN  IF op = "copy=" /\
                    (rhs.self \/ (view.vector = rhs.vector /\ view.offset_ = rhs.offset))
                   THEN pc' = "done" /\ last' = [c EXCEPT !.path = "return"]
                   ELSE pc' = "size-check" /\ last' = c
    /\ UNCHANGED <<W, useStreaming, N, mem, view, ctorArgs, views>>

\* Faulty variant of the comparison of the sizes: for equal sizes the kernel is
\* chosen at once, without the test of canAlias.
SizeCheckThenKernel ==
    /\ pc = "size-check"
    /\ IF size(view) # last.rhs.size
         THEN pc' = "error" /\ last' = [last EXCEPT !.err = "invalid_argument"]
         ELSE pc' = "path-select" /\ last' = last
    /\ UNCHANGED <<W, useStreaming, N, mem, view, ctorArgs, views>>

\* if( size() != (~rhs).size() ) throw std::invalid_argument( ... );
SizeCheck ==
    /\ pc = "size-check"
    /\ IF size(view) # last.rhs.size
         THEN pc' = "error" /\ last' = [last EXCEPT !.err = "invalid_argument"]
         ELSE pc' = "alias-check" /\ last' = last
    /\ UNCHANGED <<W, useStreaming, N, mem, view, ctorArgs, views>>

\* if( (~rhs).canAlias( &vector_ ) ) { const ResultType tmp( ~rhs ); ... } else ...
AliasCheck ==
    /\ pc = "alias-check"
    /\ last' = [last EXCEPT !.tmp = NeedsTemporary(last.op, view, last.rhs)]
    /\ pc' = "path-select"
    /\ UNCHANGED <<W, useStreaming, N, mem, view, ctorArgs, views>>

\* The kernel for the operand and, in the vectorized assign, its branch.
PathSelect ==
    /\ pc = "path-select"
    /\ last' = [last EXCEPT
                   !.path = KernelPath(last.op, view, KernelOperand(last), last.simd),
                   !.i = 0,
                   !.phase = IF ResetsFirst(last) THEN "reset" ELSE "elements"]
    /\ pc' = "execute"
    /\ UNCHANGED <<W, useStreaming, N, mem, view, ctorArgs, views>>

\* The next statement of the kernel, or its return.
Execute ==
    /\ pc = "execute"
    /\ LET r == KernelStatement(mem, view, last)
       IN  /\ mem' = r.mem
           /\ last' = [last EXCEPT !.i = r.i, !.phase = r.phase]
           /\ pc' = IF r.fin THEN "done" ELSE "execute"
    /\ UNCHANGED <<W, useStreaming, N, view, ctorArgs, views>>

\* subvector( parent, index, n ) for the target of the call.
ConstructForCall == ConstructAt(CallOffsets, 0..(MaxN + 1))

NextCall ==
    \/ ConstructForCall
    \/ CallBegin
    \/ SizeCheck
    \/ AliasCheck
    \/ PathSelect
    \/ Execute

SpecCall == InitCall /\ [][NextCall]_vars

\* The statements of a call that has begun.
CallStep ==
    \/ SizeCheck
    \/ AliasCheck
    \/ PathSelect
    \/ Execute

\* A call that has begun runs on: the statements of a call are executed one after
\* the other by the calling thread.
SpecCallFair == SpecCall /\ WF_vars(CallStep)

(***************************************************************************)
(* Properties.                                                             *)
(***************************************************************************)
\* The last call was one of the assignment operators with a vector operand.
IsAssignCall == last.op \in {"copy=", "=", "+=", "-=", "*="}

\* The element operation of the operator called last.
LastOp ==
    CASE last.op \in {"copy=", "=", "assign", "scalar*=", "scalar/="} -> "="
      [] last.op = "+=" -> "+"
      [] last.op = "-=" -> "-"
      [] last.op = "*=" -> "*"

\* Storage index k lies in the range of the view.
InView(k) == k >= view.offset_ /\ k < view.offset_ + view.size_

\* Element i of the operand of the last call, as it was when the call was made.
SourceValue(i) ==
    IF last.rhs.kind = "sparse"
      THEN IF \E e \in 1..Len(last.rhs.elems) : last.rhs.elems[e].index = i
             THEN (CHOOSE x \in {last.rhs.elems[e].value : e \in
                      {d \in 1..Len(last.rhs.elems) : last.rhs.elems[d].index = i}} : TRUE)
             ELSE 0
      ELSE RhsAt(last.pre, last.rhs, i)

\* The arguments of the constructor call describe a range inside the parent.
ValidArgs == ctorArgs.index + ctorArgs.n <= N

\* C1: for offset+length <= parent.size() the view is built, size() is the requested
\* length, view[i] reads parent[offset+i] for every i < length, and a write through
\* view[i] changes exactly parent[offset+i].
C1_ViewElementsAreParentElements ==
    /\ (last.op = "subvector" /\ ValidArgs) => view # NoView
    /\ (view # NoView /\ ValidArgs) =>
         /\ size(view) = ctorArgs.n
         /\ \A i \in 0..(ctorArgs.n - 1) :
              Subscript(mem, view, i) = At(mem, ctorArgs.index + i)
         /\ last.op = "write" =>
              mem = Put(last.pre, ctorArgs.index + last.i, last.x)

C1_Witness ==
    /\ last.op = "write" /\ last.i = 2
    /\ view.offset_ = 3 /\ view.size_ = 4
    /\ At(mem, 5) = 7

\* C2: a constructor call with offset+length > parent.size() always throws
\* std::invalid_argument and yields no view, whatever the size of the parent.
C2_RangeErrorAlwaysThrown ==
    (last.op = "subvector" /\ ~ValidArgs) =>
        (last.err = "invalid_argument" /\ view = NoView)

\* C3: operator=, +=, -= and *= with a vector operand of a different size throw the
\* size error, and a call that throws leaves the whole parent as it was.
C3_SizeMismatchWritesNothing ==
    /\ (last.op \in {"=", "+=", "-=", "*="} /\ last.rhs.size # size(view)) =>
          last.err = "invalid_argument"
    /\ (IsAssignCall /\ last.err = "invalid_argument") => mem = last.pre

C3_Witness ==
    /\ last.op = "=" /\ last.rhs.kind = "sparse" /\ last.err = "invalid_argument"
    /\ last.rhs.size = size(view) + 1 /\ size(view) >= 2
    /\ \E k \in 0..(N - 1) : InView(k) /\ At(mem, k) # 0

\* C4: after view = d for a dense operand d of the same size that does not alias the
\* parent, view[i] = d[i] for every i < length, on the scalar, the vectorized and
\* the streaming branch, for every length and offset.
C4_DenseAssignReadsBack ==
    (/\ last.op \in {"=", "copy="}
     /\ last.err = "none"
     /\ last.rhs.kind \in {"dense", "view"}
     /\ last.rhs.vector # view.vector) =>
        /\ last.path \in {"scalar", "vector", "stream"}
        /\ ~last.tmp
        /\ \A i \in 0..(size(view) - 1) : Subscript(mem, view, i) = SourceValue(i)

C4_Witness ==
    /\ last.op = "=" /\ last.rhs.kind = "dense" /\ last.path = "vector"
    /\ W = 2 /\ view.offset_ = 1 /\ view.size_ = 9
    /\ ~view.aligned_ /\ view.rest_ = 1

C6_CompoundAssignElementwise ==
    (/\ last.op \in {"+=", "-=", "*="}
     /\ last.err = "none"
     /\ last.rhs.kind \in {"dense", "view"}) =>
        \A k \in 0..(N - 1) :
           At(mem, k) =
             IF InView(k)
               THEN Apply(LastOp, At(last.pre, k), SourceValue(k - view.offset_))
               ELSE At(last.pre, k)

C6_Witness ==
    /\ last.op = "+=" /\ last.rhs.kind = "dense" /\ last.path = "vector"
    /\ N = 10 /\ view.offset_ = 3 /\ view.size_ = 4
    /\ SubSeq(mem, 1, N) = <<0, 1, 2, 13, 14, 15, 16, 7, 8, 9>>

\* C7: view *= s for a sparse operand s of the same size sets every position of the
\* view that is not among the elements of s to zero and every position k that is to
\* the previous value times s[k].
C7_SparseMultAssign ==
    (last.op = "*=" /\ last.err = "none" /\ last.rhs.kind = "sparse") =>
        \A i \in 0..(size(view) - 1) :
           Subscript(mem, view, i) =
             IF \E e \in 1..Len(last.rhs.elems) : last.rhs.elems[e].index = i
               THEN Subscript(last.pre, view, i) * SourceValue(i)
               ELSE 0

C7_Witness ==
    /\ last.op = "*=" /\ last.rhs.kind = "sparse"
    /\ last.rhs.elems = <<[index |-> 1, value |-> 5]>>
    /\ size(view) = 4
    /\ [i \in 1..4 |-> Subscript(last.pre, view, i - 1)] = <<1, 2, 3, 4>>
    /\ [i \in 1..4 |-> Subscript(mem, view, i - 1)] = <<0, 10, 0, 0>>

C9_SizeMismatchAlwaysThrown ==
    (IsAssignCall /\ last.rhs.size # size(view)) => last.err = "invalid_argument"

\* C10: the aligned flag set by the constructor is true exactly if
\* offset % W = 0 and (offset+length = parentSize or length % W = 0), whenever
\* offset+length <= parentSize.
C10_AlignedFlag ==
    (view # NoView /\ ValidArgs) =>
        (view.aligned_ <=>
            (/\ ctorArgs.index % W = 0
             /\ (ctorArgs.index + ctorArgs.n = N \/ ctorArgs.n % W = 0)))

C10_Witness ==
    /\ view # NoView /\ ValidArgs
    /\ view.aligned_ /\ view.rest_ > 0 /\ view.offset_ > 0

\* The operand handed to the kernel of the last call is aliased with the parent: it
\* is the operand of the call itself (no temporary) and a view of the parent.
KernelOperandAliased == ~last.tmp /\ isAliased(last.rhs, view.vector)

\* The last call is a plain assignment: operator= (called by the operators with a
\* scalar operand as well) or the assign kernel.
IsPlainAssign == last.op \in {"=", "copy=", "assign", "scalar*=", "scalar/="}

\* C18: the streaming branch is taken only by a plain assignment on the vectorized
\* path, and exactly if streaming is enabled, the view is aligned, its size exceeds
\* the threshold and the operand of the kernel is not aliased with the parent; +=, -=
\* and *= never stream, and a vectorized plain assignment uses the normal stores
\* whenever the view is not aligned or the operand aliases the parent.
C18_StreamingOnlyInPlainAssign ==
    LET cond == /\ useStreaming
                /\ view.aligned_
                /\ size(view) > StreamThreshold
                /\ ~KernelOperandAliased
    IN  /\ last.path = "stream" => (IsPlainAssign /\ vectorizable /\ cond)
        /\ (IsPlainAssign /\ last.path = "vector") => ~cond
        /\ last.op \in {"+=", "-=", "*="} => last.path # "stream"
        /\ (IsPlainAssign /\ last.path \in {"vector", "stream"}
               /\ (~view.aligned_ \/ KernelOperandAliased)) => last.path = "vector"

C18_Witness ==
    /\ last.op = "assign" /\ last.path = "vector"
    /\ last.rhs.kind = "view" /\ last.rhs.vector = view.vector
    /\ useStreaming /\ view.aligned_ /\ size(view) > StreamThreshold

\* C19: the values cached by the constructor are rest_ = size % W and
\* final_ = size - rest_, so final_ is a multiple of W, final_ <= size and
\* rest_ < W; for W = 1 the view is aligned, rest_ is 0 and final_ is the size.
C19_CachedRemainderAndBoundary ==
    view # NoView =>
        /\ view.size_ = ctorArgs.n
        /\ view.rest_ = ctorArgs.n % W
        /\ view.final_ = ctorArgs.n - view.rest_
        /\ view.final_ % W = 0
        /\ view.final_ <= ctorArgs.n
        /\ view.rest_ < W
        /\ W = 1 => (view.aligned_ /\ view.rest_ = 0 /\ view.final_ = ctorArgs.n)

C19_Witness ==
    /\ view # NoView /\ ValidArgs
    /\ W = 4 /\ ctorArgs.n = 7 /\ ctorArgs.index = 1
    /\ view.rest_ = 3 /\ view.final_ = 4

\* C20: canAlias( p ) of a view is true exactly if p is the address of the view's
\* parent, whatever the offset and the size, and isAliased( p ) implies
\* canAlias( p ); so an operand that is a view of the target's parent is reported
\* as a possible alias (and evaluated into a temporary) even if the two ranges are
\* disjoint.
C20_CanAliasIsParentIdentity ==
    /\ last.op = "alias" =>
          /\ last.can <=> (last.alias = view.vector)
          /\ last.is => last.can
    /\ (/\ IsAssignCall /\ last.err = "none" /\ last.path # "return"
        /\ last.rhs.kind \in {"view", "dense"}) =>
          (last.tmp <=> (last.rhs.kind = "view" /\ last.rhs.vector = view.vector))

C20_Witness ==
    /\ last.op = "+=" /\ last.err = "none" /\ last.tmp
    /\ last.rhs.kind = "view" /\ last.rhs.vector = view.vector
    /\ size(view) = 3 /\ view.offset_ = 0 /\ last.rhs.offset = 5

(***************************************************************************)
(* The storage positions (0-based) the vectorized kernels access.          *)
(***************************************************************************)
\* The positions of one intrinsic register at position k.
Lanes(k) == {k + j : j \in 0..(W - 1)}

\* The positions loadu( index ) and storeu( index, value ) of the view v access.
ViewLanes(v, index) ==
    IF v.aligned_ \/ index # v.final_
      THEN Lanes(v.offset_ + index)
      ELSE {v.offset_ + index + j : j \in 0..(v.rest_ - 1)}

\* The loop indices of the loop over the remaining registers, from iend on.
RemainderIndices(v) ==
    {i \in 0..v.size_ :
        /\ i >= BitAnd(v.size_, Neg(W * 4), SizeBits)
        /\ i < v.size_
        /\ i % W = 0}

\* The positions of the parent written by the vectorized kernel: the registers of
\* the blocked loop through vector_.storeu, the remaining ones through storeu.
KernelStores(v) ==
    UNION ({Lanes(v.offset_ + i) :
              i \in {k \in 0..v.size_ : k < BitAnd(v.size_, Neg(W * 4), SizeBits)
                                          /\ k % W = 0}}
           \cup {ViewLanes(v, i) : i \in RemainderIndices(v)})

\* The positions of the parent written by the streaming loop.
StreamStores(v) ==
    UNION {Lanes(v.offset_ + i) : i \in {k \in 0..v.size_ : k < v.size_ /\ k % W = 0}}

\* The positions of the parent read through load( i ) by addAssign, subAssign and
\* multAssign (none by assign).
KernelLoads(op, v) ==
    IF op = "="
      THEN {}
      ELSE UNION {ViewLanes(v, i) : i \in {k \in 0..v.size_ : k < v.size_ /\ k % W = 0}}

\* The positions of the operand's storage read through it.load() (through
\* (~rhs).load( i ) by the streaming loop), relative to the operand's first element.
SourceLoads(v, rhs, stream) ==
    UNION {IF stream /\ rhs.kind = "view"
             THEN {p - rhs.v.offset_ : p \in ViewLanes(rhs.v, i)}
             ELSE Lanes(i) :
           i \in {k \in 0..v.size_ : k < v.size_ /\ k % W = 0}}

\* C15: a call on the vectorized path reads and writes no position of the parent
\* at or beyond offset + length and no position of the operand at or beyond its
\* length, for every offset, length and register width.
C15_NoAccessBeyondEnd ==
    (/\ last.path \in {"vector", "stream"}
     /\ last.rhs.kind \in {"dense", "view"}) =>
        LET stores == IF last.path = "stream" THEN StreamStores(view)
                                              ELSE KernelStores(view)
        IN  /\ \A p \in stores \cup KernelLoads(LastOp, view) :
                  p < view.offset_ + view.size_
            /\ \A p \in SourceLoads(view, last.rhs, last.path = "stream") :
                  p < last.rhs.size

\* C12: the range offset + length <= size is enforced by every constructor, the
\* one of the subvectors of cross product expressions included: a call with
\* offset + length greater than the size of the expression throws and yields no view.
C12_RangeEnforcedAtConstruction ==
    (last.op = "subvector" /\ ctorArgs.index + ctorArgs.n > CrossSize) =>
        (last.err = "invalid_argument" /\ view = NoView)

\* C14: a subvector of a cross product expression holds a copy of the expression,
\* answers canAlias( p ) and isAliased( p ) as the expression does, reads element i
\* as expression[offset+i], never changes an operand and is not vectorizable.
C14_CrossViewForwards ==
    pc \in {"cross", "done"} =>
        /\ view.vector = last.rhs.vector
        /\ view.offset_ = ctorArgs.index /\ view.size_ = ctorArgs.n
        /\ ~CrossVectorizable
        /\ mem = Iota(CrossSize, W, 1)
        /\ last.op = "alias" =>
              /\ last.can = ExprCanAlias(last.rhs.vector, last.alias)
              /\ last.is = ExprIsAliased(last.rhs.vector, last.alias)
        /\ (last.op = "read" /\ ctorArgs.index + last.i < CrossSize) =>
              last.x = ExprAt(mem, last.rhs.vector, ctorArgs.index + last.i)

C14_Witness ==
    /\ pc = "done" /\ last.op = "alias"
    /\ view.vector = CrossExpr("B", "A") /\ last.alias = "A" /\ last.can /\ last.is
    /\ view.offset_ = 1 /\ view.size_ = 2

\* C11: subvector( outer, i, n ) on a view outer = (root, o, l) is built exactly if
\* o + i + n <= root.size(); the result refers to the root parent of outer, has
\* offset o + i and size n, and its element k is root[o+i+k], the element i+k of
\* outer. The result is a view like any other, so the same holds for a subvector
\* of it.
C11_NestedViewRefersToRoot ==
    last.op = "nested" =>
        LET outer == last.rhs.v
        IN  /\ (last.err = "none") <=> (outer.offset_ + last.i + last.x <= N)
            /\ last.err # "none" => view = NoView
            /\ last.err = "none" =>
                  /\ view \in views
                  /\ view.vector = "A" /\ view.vector = outer.vector
                  /\ view.offset_ = outer.offset_ + last.i
                  /\ size(view) = last.x
                  /\ \A k \in 0..(last.x - 1) :
                        /\ Subscript(mem, view, k) = At(mem, outer.offset_ + last.i + k)
                        /\ Subscript(mem, view, k) = Subscript(mem, outer, last.i + k)

C11_Witness ==
    /\ last.op = "nested" /\ last.err = "none"
    /\ last.rhs.v.offset_ = 1 /\ last.rhs.v.size_ = 2 /\ last.i = 1 /\ last.x = 1
    /\ view.offset_ = 2 /\ Subscript(mem, view, 0) = 7

\* C13: every live view reads the parent's elements in its range; a write w[i] = x
\* through a live view w changes parent[w.offset+i] and nothing else and is read
\* back at once through the parent and through every live view that contains the
\* position; the end of a view's lifetime changes nothing in the parent.
C13_ViewsShareTheParent ==
    pc = "views" =>
        /\ \A w \in views :
              /\ w.vector = "A" /\ w.offset_ + w.size_ <= N
              /\ \A j \in 0..(size(w) - 1) : Subscript(mem, w, j) = At(mem, w.offset_ + j)
        /\ last.op = "write" =>
              LET p == last.rhs.v.offset_ + last.i
              IN  /\ At(mem, p) = last.x
                  /\ \A w \in views : \A j \in 0..(size(w) - 1) :
                        Subscript(mem, w, j) =
                           IF w.offset_ + j = p THEN last.x
                                                ELSE At(last.pre, w.offset_ + j)
                  /\ \A k \in 0..(Len(mem) - 1) : k # p => At(mem, k) = At(last.pre, k)
        /\ last.op = "destroy" => (mem = last.pre /\ last.rhs.v \notin views)

C13_Witness ==
    /\ last.op = "write" /\ last.i = 1 /\ last.rhs.v.offset_ = 1
    /\ \E w \in views : w # last.rhs.v /\ w.offset_ = 0 /\ size(w) = 3
                          /\ Subscript(mem, w, 2) = 7 /\ Subscript(mem, w, 0) = 7

\* The call of SpecCall is one of the operators with a vector operand and has not
\* returned from the test for self-assignment.
InCall(stages) ==
    /\ pc \in stages
    /\ last.op \in {"copy=", "=", "+=", "-=", "*="}
    /\ last.path # "return"

\* The operand of the call is evaluated into a temporary exactly if it can alias
\* the parent.
TemporaryIffCanAlias ==
    InCall({"path-select", "execute", "done"}) =>
        (last.tmp <=> canAlias(last.rhs, view.vector))

\* C16 (as stated): in every assignment operator nothing is written before canAlias
\* has been evaluated; the operand is evaluated into a temporary if canAlias is true
\* and read directly if it is false.
C16_TemporaryExactlyIfCanAlias ==
    /\ InCall({"size-check", "alias-check", "path-select", "error"}) => mem = last.pre
    /\ TemporaryIffCanAlias

\* C16 (amended): nothing is written before canAlias has been evaluated; the
\* operand is evaluated into a temporary if canAlias is true, and for operator*= also
\* if the operand is sparse; otherwise the kernel reads the operand itself. The
\* temporary holds the operand as it was when the call was made, so with a
\* temporary the result is the one computed from the operand before the first write.
C16_AliasTestBeforeWrites ==
    /\ InCall({"size-check", "alias-check", "path-select", "error"}) => mem = last.pre
    /\ InCall({"size-check", "alias-check", "error"}) => ~last.tmp
    /\ InCall({"path-select", "execute", "done"}) =>
          /\ last.tmp <=> (canAlias(last.rhs, view.vector)
                             \/ (last.op = "*=" /\ last.rhs.kind = "sparse"))
          /\ ~last.tmp => KernelOperand(last) = last.rhs
          /\ last.tmp =>
                /\ KernelOperand(last).vector = "tmp"
                /\ KernelOperand(last).size = last.rhs.size
                /\ last.rhs.kind = "view" =>
                      \A i \in 0..(last.rhs.size - 1) :
                         RhsAt(mem, KernelOperand(last), i) =
                            At(last.pre, last.rhs.offset + i)
    /\ (InCall({"done"}) /\ last.tmp /\ last.rhs.kind = "view") =>
          \A k \in 0..(N - 1) :
             At(mem, k) =
               IF InView(k)
                 THEN Apply(ElementOp(last.op), At(last.pre, k),
                            At(last.pre, last.rhs.offset + (k - view.offset_)))
                 ELSE At(last.pre, k)

C16_Witness ==
    /\ pc = "execute" /\ last.op = "-=" /\ last.tmp /\ last.path = "vector"
    /\ last.rhs.kind = "view" /\ last.rhs.vector = view.vector
    /\ last.rhs.offset = 0 /\ view.offset_ = 1 /\ size(view) = 9
    /\ last.i = 8 /\ mem # last.pre

\* The order of the statements of a call.
StageOrder ==
    {<<"init", "view">>, <<"init", "done">>, <<"view", "size-check">>,
     <<"view", "done">>, <<"size-check", "alias-check">>, <<"size-check", "error">>,
     <<"alias-check", "path-select">>, <<"path-select", "execute">>,
     <<"execute", "execute">>, <<"execute", "done">>}

\* A step of a call: it follows the order of the statements, an exception is only
\* thrown by the comparison of the sizes, and a statement of a loop moves the loop
\* index forward (or ends the loop over the elements to reset).
StageStep ==
    /\ <<pc, pc'>> \in StageOrder
    /\ (pc' = "error" \/ (pc # "init" /\ last'.err # "none")) => pc = "size-check"
    /\ (pc = "execute" /\ pc' = "execute") =>
          \/ last'.phase = last.phase /\ last'.i > last.i
          \/ last.phase = "reset" /\ last'.phase = "elements"
    /\ pc \in {"done", "error"} => pc' = pc

\* C17: a call goes through the comparison of the sizes, the test of canAlias, the
\* choice of the kernel and the execution of the kernel in this order, each at most
\* once; only the comparison of the sizes throws; nothing follows the return or the
\* exception; every statement of a kernel loop moves its index forward, and every
\* call that has begun ends.
C17_StagesInOrderAndTermination ==
    /\ [][StageStep]_vars
    /\ (pc = "size-check") ~> (pc \in {"done", "error"})

C17_Witness ==
    /\ pc = "done" /\ last.op = "+=" /\ last.path = "vector" /\ ~last.tmp
    /\ W = 2 /\ size(view) = 9 /\ ~view.aligned_ /\ last.i = 10

\* The call has ended and its effect is the one of the operator taken as a whole.
CallAgreesWithOperator ==
    pc \in {"done", "error"} /\ last.op # "subvector" =>
        LET r == Operator(last.op, last.pre, view, last.rhs, last.simd)
        IN  /\ mem = r.mem
            /\ last.err = r.err
            /\ last.path = r.path
            /\ last.tmp = r.tmp
(***************************************************************************)
(* Operators with a scalar operand.                                        *)
(***************************************************************************)
\* C21: view /= s for s # 0 has no loop of its own: the expression view / s is
\* handed to operator=, which evaluates it into a temporary before the first
\* element is written, so every element of the view becomes its previous value
\* divided by s and every other element of the parent stays as it was; view *= s
\* goes the same way with the product.
C21_ScalarDivisionThroughAssignment ==
    last.op \in {"scalar*=", "scalar/="} =>
        /\ last.err = "none"
        /\ last.tmp
        /\ last.path \in {"scalar", "vector", "stream"}
        /\ \A k \in 0..(N - 1) :
             At(mem, k) =
               IF InView(k)
                 THEN IF last.op = "scalar/=" THEN Quot(At(last.pre, k), last.x)
                                              ELSE At(last.pre, k) * last.x
                 ELSE At(last.pre, k)

C21_Witness ==
    /\ last.op = "scalar/=" /\ last.x = 0 - 3 /\ last.path = "vector"
    /\ view.offset_ = 2 /\ view.size_ = 5 /\ N = 9
    /\ SubSeq(mem, 1, N) = <<0, 1, 0, 0 - 1, 0 - 1, 0 - 1, 0 - 2, 7, 8>>

(***************************************************************************)
(* The element indices handled by the default kernels.                     *)
(***************************************************************************)
\* The indices of the unrolled loop for( i=0; i<iend; i+=2 ): i and i+1 per pass.
RECURSIVE ScalarLoopIndices(_, _)
ScalarLoopIndices(i, iend) ==
    IF i < iend THEN <<i, i + 1>> \o ScalarLoopIndices(i + 2, iend) ELSE <<>>

\* Faulty variant of the indices of a default kernel: no statement behind the loop.
ScalarIndicesNoTail(v) == ScalarLoopIndices(0, BitAnd(size(v), Neg(2), SizeBits))

\* The indices a default kernel handles, in the order of its statements: those of
\* the unrolled loop up to iend = size() & size_t(-2), then iend if iend < size().
ScalarIndices(v) ==
    LET iend == BitAnd(size(v), Neg(2), SizeBits)
    IN  ScalarLoopIndices(0, iend) \o (IF iend < size(v) THEN <<iend>> ELSE <<>>)

\* The statement vector_[i+offset_] op= (~rhs)[i] executed for the indices t[j],
\* t[j+1], ... one after the other.
RECURSIVE ApplyIndices(_, _, _, _, _, _)
ApplyIndices(op, m, v, rhs, t, j) ==
    IF j > Len(t) THEN m
    ELSE ApplyIndices(op, ScalarStep(op, m, v, rhs, t[j]), v, rhs, t, j + 1)

\* C22: the default kernels of assign, addAssign, subAssign and multAssign execute
\* their statement for every index 0 .. length-1 exactly once, at
\* parent[offset+i]: the unrolled loop takes the pairs below the length with its
\* lowest bit cleared, one more statement takes index length-1 exactly if the
\* length is odd, and nothing is executed for length 0.
C22_ScalarKernelEveryIndexOnce ==
    (last.path = "scalar" /\ last.err = "none") =>
        LET n    == size(view)
            iend == BitAnd(n, Neg(2), SizeBits)
            t    == ScalarIndices(view)
        IN  /\ iend = n - (n % 2)
            /\ t = [j \in 1..n |-> j - 1]
            /\ SubSeq(t, 1, iend) = ScalarLoopIndices(0, iend)
            /\ (Len(t) = iend + 1 /\ t[Len(t)] = n - 1) <=> (n % 2 = 1)
            /\ mem = ApplyIndices(LastOp, last.pre, view, KernelOperand(last), t, 1)
            /\ n = 0 => mem = last.pre

C22_Witness ==
    /\ last.op = "*=" /\ last.path = "scalar" /\ last.rhs.kind = "dense"
    /\ view.offset_ = 3 /\ size(view) = 5 /\ N = 10
    /\ ScalarIndices(view) = <<0, 1, 2, 3, 4>>
    /\ SubSeq(mem, 1, N) = <<0, 1, 2, 6, 12, 20, 30, 42, 8, 9>>

(***************************************************************************)
(* The register indices handled by the vectorized kernels.                 *)
(***************************************************************************)
\* Faulty variant of the end of the blocked loop: masked with the register width.
BlockEndByWidth(len) == BitAnd(len, Neg(W), SizeBits)

\* const size_t iend( size_ & size_t(-IT::size*4) )
BlockEnd(len) == BitAnd(len, Neg(W * 4), SizeBits)

\* The indices of the stores of the loop for( i=0; i<iend; i+=IT::size*4 ).
RECURSIVE BlockLoopIndices(_, _)
BlockLoopIndices(i, iend) ==
    IF i < iend
      THEN <<i, i + W, i + W * 2, i + W * 3>> \o BlockLoopIndices(i + W * 4, iend)
      ELSE <<>>

\* The indices of the stores of the loop for( i=iend; i<size_; i+=IT::size ).
RECURSIVE RemainderLoopIndices(_, _)
RemainderLoopIndices(i, n) ==
    IF i < n THEN <<i>> \o RemainderLoopIndices(i + W, n) ELSE <<>>

\* The indices a vectorized kernel stores a register at, in the order of its stores.
RegisterIndices(v) ==
    BlockLoopIndices(0, BlockEnd(v.size_))
        \o RemainderLoopIndices(BlockEnd(v.size_), v.size_)

\* The stores at the indices t[j], t[j+1], ... one after the other: those below
\* the end of the blocked loop through vector_.storeu, the others through storeu.
RECURSIVE ApplyRegisters(_, _, _, _, _, _)
ApplyRegisters(op, m, v, rhs, t, j) ==
    IF j > Len(t) THEN m
    ELSE ApplyRegisters(op,
                        IF t[j] < BlockEnd(v.size_)
                          THEN BlockStore(op, m, v, rhs, t[j])
                          ELSE storeu(m, v, t[j], NewValue(op, m, v, rhs, t[j])),
                        v, rhs, t, j + 1)

\* C23: the end of the blocked loop, length & (2^w - 4*W) in w-bit unsigned
\* arithmetic, is length - (length mod 4*W) for every length and every register
\* width (the assertion 'Invalid end calculation' never fails), and the blocked loop
\* followed by the loop over single registers stores at each index 0, W, 2W, ...
\* below the length exactly once, in increasing order. The register width is fixed
\* by the initial state, where the identity is evaluated for every length.
C23_BlockEndAndRegisterOrder ==
    /\ pc = "init" =>
          \A len \in 0..(SizeMod - 1) : BlockEnd(len) = len - (len % (W * 4))
    /\ (last.path = "vector" /\ last.err = "none") =>
          LET t == RegisterIndices(view)
          IN  /\ t = [j \in 1..((size(view) + W - 1) \div W) |-> (j - 1) * W]
              /\ mem = ApplyRegisters(LastOp, last.pre, view, KernelOperand(last), t, 1)

C23_Witness ==
    /\ last.op = "+=" /\ last.path = "vector" /\ W = 2
    /\ view.offset_ = 1 /\ size(view) = 9
    /\ BlockEnd(size(view)) = 8
    /\ RegisterIndices(view) = <<0, 2, 4, 6, 8>>

(***************************************************************************)
(* Assignment of a sparse vector.                                          *)
(***************************************************************************)
\* C24: after view = s for a sparse operand s of the same size the view reads back
\* as s, on the branch with the temporary (s can alias the parent) as on the direct
\* branch: the positions of the elements of s hold their values, every other
\* position of the view holds zero, whatever the view held before.
C24_SparseAssignReadsBack ==
    (last.op = "=" /\ last.err = "none" /\ last.rhs.kind = "sparse") =>
        \A i \in 0..(size(view) - 1) : Subscript(mem, view, i) = SourceValue(i)

(***************************************************************************)
(* Range of a subvector of a subvector.                                    *)
(***************************************************************************)
\* C25: a subvector of a view never reaches outside that view: whenever
\* subvector( outer, i, n ) is built, i + n <= outer.size(), and a call with
\* i + n > outer.size() throws the range error even if the root parent is large
\* enough.
C25_NestedViewInsideOuter ==
    last.op = "nested" =>
        LET outer == last.rhs.v
        IN  /\ last.err = "none" =>
                  /\ last.i + last.x <= size(outer)
                  /\ \A k \in 0..(size(view) - 1) :
                        view.offset_ + k < outer.offset_ + size(outer)
            /\ last.i + last.x > size(outer) =>
                  (last.err = "invalid_argument" /\ view = NoView)

(***************************************************************************)
(* The range test of the constructor in size_t arithmetic.                 *)
(***************************************************************************)
\* C26: for all index and n representable as size_t a view is built only if the
\* mathematical sum index + n is at most parent.size(); a pair whose sum wraps
\* around is rejected, so no view addresses an element outside the parent.
C26_RangeCheckSoundUnderWrap ==
    view # NoView =>
        /\ ctorArgs.index + ctorArgs.n <= N
        /\ \A k \in 0..(size(view) - 1) : view.offset_ + k < N

(***************************************************************************)
(* Several operations in a row on one view. The view is built over a       *)
(* parent of size MaxN; last.i counts the operations executed on it,       *)
(* last.op is the latest one and last.pre the storage before it.           *)
(***************************************************************************)
InitSeq ==
    /\ W \in Widths
    /\ useStreaming \in BOOLEAN
    /\ N = MaxN
    /\ mem = Iota(N, W, 0)
    /\ view = NoView
    /\ ctorArgs = [index |-> 0, n |-> 0]
    /\ pc = "init"
    /\ last = NoCall
    /\ views = {}

\* The longest sequence of operations.
MaxOps == MaxN \div 4

\* The range of the view v lies inside the parent. Every loop over a view that does
\* not satisfy this leaves the storage of the parent (undefined behaviour); such
\* calls are not followed.
RangeInParent(v) == v.offset_ + v.size_ <= N

\* subvector( parent, index, n ) with index at the offsets of the calls or the
\* largest value of size_t.
ConstructForSeq == ConstructAt(CallOffsets \cup {SizeMod - 1}, 0..(MaxN + 1))

\* The record of operation op of the sequence.
Sequenced(op) == [NoCall EXCEPT !.op = op, !.pre = mem, !.i = last.i + 1]

\* view[i] = x for the first and the last element of the view, as far as the
\* element is one of the parent.
WriteElement ==
    /\ pc = "view" /\ last.i < MaxOps
    /\ \E i \in {0, size(view) - 1} \cap (0..(size(view) - 1)), x \in {7} :
         /\ (view.offset_ + i) % SizeMod < N
         /\ mem' = SubscriptWrite(mem, view, i, x)
    /\ last' = Sequenced("write")
    /\ UNCHANGED <<W, useStreaming, N, view, ctorArgs, pc, views>>

\* view = x for an element value x
HomogeneousAssignment ==
    /\ pc = "view" /\ last.i < MaxOps /\ RangeInParent(view)
    /\ \E x \in {7} : mem' = AssignScalar(mem, view, x)
    /\ last' = Sequenced("fill")
    /\ UNCHANGED <<W, useStreaming, N, view, ctorArgs, pc, views>>

\* view.reset(), reset( view ), clear( view )
ResetOrClear ==
    /\ pc = "view" /\ last.i < MaxOps /\ RangeInParent(view)
    /\ \E f \in {"reset", "reset()", "clear"} :
         /\ mem' = CASE f = "reset()" -> reset(mem, view)
                     [] f = "reset" -> resetSubvector(mem, view)
                     [] f = "clear" -> clear(mem, view)
         /\ last' = Sequenced(f)
    /\ UNCHANGED <<W, useStreaming, N, view, ctorArgs, pc, views>>

\* view.scale( s )
Scale ==
    /\ pc = "view" /\ last.i < MaxOps /\ RangeInParent(view)
    /\ \E s \in {2} : mem' = scale(mem, view, s)
    /\ last' = Sequenced("scale")
    /\ UNCHANGED <<W, useStreaming, N, view, ctorArgs, pc, views>>

\* view *= s, view /= s for a scalar s
ScalarOperator ==
    /\ pc = "view" /\ last.i < MaxOps /\ RangeInParent(view)
    /\ \E op \in {"scalar*=", "scalar/="}, s \in {2}, simd \in {vectorizable} :
         /\ mem' = (IF op = "scalar*=" THEN MultAssignScalar(mem, view, s, simd)
                                       ELSE DivAssignScalar(mem, view, s, simd)).mem
         /\ last' = Sequenced(op)
    /\ UNCHANGED <<W, useStreaming, N, view, ctorArgs, pc, views>>

\* view = rhs, view += rhs, view -= rhs, view *= rhs for a vector rhs
VectorOperator ==
    /\ pc = "view" /\ last.i < MaxOps /\ RangeInParent(view)
    /\ \E op \in {"copy=", "=", "+=", "-=", "*="} :
         \E rhs \in CallOperands(op) :
           \E simd \in SimdChoices(rhs) :
             LET r == Operator(op, mem, view, rhs, simd)
             IN  /\ mem' = r.mem
                 /\ last' = [Sequenced(op) EXCEPT !.err = r.err, !.path = r.path,
                                                  !.tmp = r.tmp]
    /\ UNCHANGED <<W, useStreaming, N, view, ctorArgs, pc, views>>

NextSeq ==
    \/ ConstructForSeq
    \/ WriteElement
    \/ HomogeneousAssignment
    \/ ResetOrClear
    \/ Scale
    \/ ScalarOperator
    \/ VectorOperator

SpecSeq == InitSeq /\ [][NextSeq]_vars

\* The elements of the parent outside the range of the view hold what they held
\* when the view was built and what they held before the latest operation.
OutsideUnchanged ==
    \A k \in 0..(N - 1) :
       ~InView(k) => (At(mem, k) = At(Iota(N, W, 0), k) /\ At(mem, k) = At(last.pre, k))

\* The operations leave the rest of the parent alone for every view whose range
\* lies inside the parent.
FrameOfViewsInRange == (pc = "view" /\ last.i > 0 /\ RangeInParent(view)) => OutsideUnchanged

\* C27: no operation on a view changes an element of the parent outside the range
\* of the view: after any sequence of element writes, view = x, view = vector,
\* +=, -=, *=, *= s, /= s, reset, clear and scale, on the default and on the
\* vectorized kernels, every parent[k] with k < offset or
\* offset + length <= k < parent.size() holds what it held before the sequence.
C27_NoChangeOutsideTheView == (pc = "view" /\ last.i > 0) => OutsideUnchanged

(***************************************************************************)
(* The members of a view during its lifetime.                              *)
(***************************************************************************)
\* The members of the view are those the constructor gave it, the view refers to
\* the parent it was built over, and the parent has the size it had.
MembersAsConstructed ==
    view # NoView =>
        /\ view = DenseSubvectorCtor("A", N, ctorArgs.index, ctorArgs.n).view
        /\ Len(mem) = Capacity(N, W)

\* C28: after any sequence of operations on a view the size of the parent is
\* unchanged and the offset, length, remainder, vectorized boundary and aligned
\* flag of the view are those of its construction; an assignment from another
\* view copies elements and never rebinds the target. Hence
\* offset + length <= parent.size() for every view in every reachable state.
C28_ViewsKeepTheirRange ==
    /\ MembersAsConstructed
    /\ view # NoView => view.offset_ + view.size_ <= N

(***************************************************************************)
(* The branches of one operation.                                          *)
(***************************************************************************)
\* The logical elements of the parent with the storage m.
Logical(m) == SubSeq(m, 1, N)

StreamIndices(v) == {i \in 0..size(v) : i < size(v) /\ i % W = 0}

\* C30: whenever the streaming branch of assign runs, every store goes to a
\* position offset + i of the parent that is a multiple of the register width, and
\* the lanes it writes at or beyond offset + length lie behind the last logical
\* element of the parent, in its padding: the branch requires the aligned flag.
C30_StreamingStoresAligned ==
    last.path = "stream" =>
        /\ view.aligned_
        /\ \A i \in StreamIndices(view) : (view.offset_ + i) % W = 0
        /\ \A p \in StreamStores(view) :
              /\ p < Len(mem)
              /\ p >= view.offset_ + size(view) => p >= N
        /\ mem = StreamLoop(last.pre, view, KernelOperand(last), 0)
        /\ \A k \in 0..(N - 1) : ~InView(k) => At(mem, k) = At(last.pre, k)

C30_Witness ==
    /\ last.path = "stream" /\ last.op = "copy=" /\ last.rhs.vector = "B"
    /\ W = 2 /\ N = 9 /\ view.offset_ = 4 /\ size(view) = 5 /\ view.rest_ = 1
    /\ 9 \in StreamStores(view)

====
